---- MODULE Spec2Model ----
(***************************************************************************)
(* The interactive joint console of so100_direct_controller.py (main),     *)
(* specification Spec, and upload_dataset_to_hf of upload_dataset.py,      *)
(* specification UploadSpec. The two are separate scripts: each            *)
(* specification runs one of them and leaves the other's variables as      *)
(* they are before it starts.                                              *)
(*                                                                         *)
(* Text is a sequence of one-character strings, so that strip(), lower(),  *)
(* startswith(), split(), int() and float() are computed on characters.    *)
(* A Python float is a record [k, v]: k = "fin" with v the value in        *)
(* tenths, or k = "nan" / "inf" / "ninf" (v = 0).                          *)
(***************************************************************************)
EXTENDS Integers, Sequences, FiniteSets, TLC

VARIABLES
    pc,               \* position of main(): connect, startup, prompt, readback, readall, finally, exited
    is_connected,     \* robot.is_connected
    joint_positions,  \* dict joint name -> float (a function on the keys set so far)
    selected_joint,   \* selected_joint, "unbound" before line 66
    step_size,        \* step_size, Unbound before line 65
    joint,            \* index of the `for joint in joint_names` loops (startup, r)
    cmd,              \* the last command line, stripped and lower-cased (line 85)
    out,              \* the last message printed
    calls,            \* adapter calls issued by the current command (or by startup)
    exc,              \* the exception main() ends with, "none" if it returns
    disconnect_calls, \* number of robot.disconnect() calls so far
    reply,            \* what the bus answers to the read main() is about to issue
    upload_pc,         \* position of upload_dataset_to_hf: idle, start, validate, create_repo,
                       \* card, upload_folder, create_branch, returned, raised
    local_path_exists, \* local_path.exists()
    info_path_exists,  \* info_path.exists()
    repo_id,           \* argument repo_id
    version,           \* argument version
    private,           \* argument private
    readme_content,    \* readme_content, None before line 60
    hub,               \* the Hub operations issued so far, each with its outcome
    logged,            \* logger.error was called (line 82)
    upload_exc,        \* the exception upload_dataset_to_hf ends with, "none" if it has not raised
    result             \* the value returned, NotReturned if the function has not returned

mainVars == <<pc, is_connected, joint_positions, selected_joint, step_size, joint,
              cmd, out, calls, exc, disconnect_calls, reply>>

uploadVars == <<upload_pc, local_path_exists, info_path_exists, repo_id, version, private,
                readme_content, hub, logged, upload_exc, result>>

vars == <<mainVars, uploadVars>>

-----------------------------------------------------------------------------
(* Python floats *)

Fin(n) == [k |-> "fin", v |-> n]
NaN == [k |-> "nan", v |-> 0]
PosInf == [k |-> "inf", v |-> 0]
NegInf == [k |-> "ninf", v |-> 0]
Unbound == [k |-> "unbound", v |-> 0]

\* a + b
FAdd(a, b) ==
    IF a.k = "nan" \/ b.k = "nan" THEN NaN
    ELSE IF a.k = "fin" /\ b.k = "fin" THEN Fin(a.v + b.v)
    ELSE IF a.k = "fin" THEN b
    ELSE IF b.k = "fin" THEN a
    ELSE IF a.k = b.k THEN a
    ELSE NaN

\* -a
FNeg(a) ==
    IF a.k = "fin" THEN Fin(0 - a.v)
    ELSE IF a.k = "inf" THEN NegInf
    ELSE IF a.k = "ninf" THEN PosInf
    ELSE a

\* a - b
FSub(a, b) == FAdd(a, FNeg(b))

\* a > b (False whenever a NaN is involved)
FGt(a, b) ==
    IF a.k = "nan" \/ b.k = "nan" THEN FALSE
    ELSE IF a.k = "fin" /\ b.k = "fin" THEN a.v > b.v
    ELSE IF a.k = "inf" THEN b.k # "inf"
    ELSE IF a.k = "ninf" THEN FALSE
    ELSE b.k = "ninf"

Zero == Fin(0)

-----------------------------------------------------------------------------
(* str methods *)

Digits == <<"0", "1", "2", "3", "4", "5", "6", "7", "8", "9">>

IsDigit(c) == \E i \in 1..Len(Digits) : Digits[i] = c

DigitVal(c) == (CHOOSE i \in 1..Len(Digits) : Digits[i] = c) - 1

IsSpace(c) == c = " "

\* str.lower() on one character
LowerChar(c) ==
    CASE c = "J" -> "j"
      [] c = "S" -> "s"
      [] c = "R" -> "r"
      [] c = "Q" -> "q"
      [] c = "N" -> "n"
      [] c = "A" -> "a"
      [] c = "I" -> "i"
      [] c = "F" -> "f"
      [] c = "X" -> "x"
      [] OTHER -> c

Lower(s) == [i \in 1..Len(s) |-> LowerChar(s[i])]

RECURSIVE LStrip(_)
LStrip(s) == IF s # <<>> /\ IsSpace(Head(s)) THEN LStrip(Tail(s)) ELSE s

RECURSIVE RStrip(_)
RStrip(s) ==
    IF s # <<>> /\ IsSpace(s[Len(s)]) THEN RStrip(SubSeq(s, 1, Len(s) - 1)) ELSE s

Strip(s) == RStrip(LStrip(s))

StartsWith(s, c) == s # <<>> /\ Head(s) = c

\* the first whitespace-free run of s (s does not start with whitespace)
RECURSIVE FirstToken(_)
FirstToken(s) ==
    IF s = <<>> \/ IsSpace(Head(s)) THEN <<>> ELSE <<Head(s)>> \o FirstToken(Tail(s))

\* str.split(): the whitespace-separated tokens of s
RECURSIVE Split(_)
Split(s) ==
    LET t == LStrip(s)
    IN  IF t = <<>> THEN <<>>
        ELSE LET w == FirstToken(t)
             IN  <<w>> \o Split(SubSeq(t, Len(w) + 1, Len(t)))

\* the value of a run of decimal digits
RECURSIVE DigitsVal(_)
DigitsVal(s) ==
    IF s = <<>> THEN 0 ELSE 10 * DigitsVal(SubSeq(s, 1, Len(s) - 1)) + DigitVal(s[Len(s)])

AllDigits(s) == \A i \in 1..Len(s) : IsDigit(s[i])

HasSign(s) == s # <<>> /\ Head(s) \in {"+", "-"}

Unsigned(s) == IF HasSign(s) THEN Tail(s) ELSE s

\* int(tok): [ok |-> FALSE] stands for ValueError
int(tok) ==
    LET body == Unsigned(tok)
    IN  IF body # <<>> /\ AllDigits(body)
        THEN [ok |-> TRUE,
              v |-> IF StartsWith(tok, "-") THEN 0 - DigitsVal(body) ELSE DigitsVal(body)]
        ELSE [ok |-> FALSE, v |-> 0]

DotAt(s) == IF \E i \in 1..Len(s) : s[i] = "."
            THEN CHOOSE i \in 1..Len(s) : s[i] = "." /\ \A j \in 1..(i - 1) : s[j] # "."
            ELSE 0

\* float(tok) for the decimal forms with at most one fractional digit, and for
\* nan / inf / infinity; [ok |-> FALSE] stands for ValueError
float(tok) ==
    LET body == Unsigned(tok)
        neg == StartsWith(tok, "-")
        d == DotAt(body)
        whole == IF d = 0 THEN body ELSE SubSeq(body, 1, d - 1)
        frac == IF d = 0 THEN <<>> ELSE SubSeq(body, d + 1, Len(body))
        mag == 10 * DigitsVal(whole) + (IF frac = <<>> THEN 0 ELSE DigitVal(frac[1]))
    IN  IF body = <<"n", "a", "n">> THEN [ok |-> TRUE, v |-> NaN]
        ELSE IF body \in {<<"i", "n", "f">>, <<"i", "n", "f", "i", "n", "i", "t", "y">>}
        THEN [ok |-> TRUE, v |-> IF neg THEN NegInf ELSE PosInf]
        ELSE IF /\ AllDigits(whole)
                /\ AllDigits(frac)
                /\ Len(frac) <= 1
                /\ Len(whole) + Len(frac) > 0
        THEN [ok |-> TRUE, v |-> IF neg THEN Fin(0 - mag) ELSE Fin(mag)]
        ELSE [ok |-> FALSE, v |-> Zero]

-----------------------------------------------------------------------------
(* The adapter and the operator *)

\* largest ndarray a bus read returns
MaxReadSize == 2

\* the position a servo reports: 395.0
ReadValues == {Fin(3950)}

None == [k |-> "none", v |-> 0]

Arrays == UNION {[1..n -> ReadValues] : n \in 0..MaxReadSize}

\* what motor_bus.read returns: a scalar or a numpy array
ReadResults ==
    {[kind |-> "scalar", vals |-> <<v>>] : v \in ReadValues}
        \cup {[kind |-> "ndarray", vals |-> a] : a \in Arrays}

\* a bus call returns or raises an Exception
Outcomes == {"ok", "raise"}

NoReply == [o |-> "none", pos |-> [kind |-> "none", vals |-> <<>>]]

\* motor_bus.read returns a result or raises an Exception
Replies ==
    {[o |-> "ok", pos |-> r] : r \in ReadResults}
        \cup {[o |-> "raise", pos |-> [kind |-> "none", vals |-> <<>>]]}

ReadCall(j) == [op |-> "read", reg |-> "Present_Position", joint |-> j, value |-> None]

WriteCall(j, target) == [op |-> "write", reg |-> "Goal_Position", joint |-> j, value |-> target]

LifecycleCall(name) == [op |-> name, reg |-> "", joint |-> "", value |-> None]

\* the lines the operator types
Lines == {
    <<"q">>, <<" ", "Q", " ">>,
    <<"j", " ", "1">>, <<"j", " ", "2">>, <<"J", " ", "3">>, <<"j", " ", " ", "4">>,
    <<"j", " ", "5">>, <<" ", "j", " ", "6">>,
    <<"j", " ", "0">>, <<"j", " ", "7">>, <<"j", " ", "9">>, <<"j", " ", "-", "1">>,
    <<"j">>, <<"j", " ", "2", ".", "5">>, <<"j", "u", "m", "p", " ", "3">>,
    <<"+">>, <<"-">>,
    <<"s", " ", "5">>, <<"S", " ", "2", ".", "5">>, <<"s", " ", "0">>,
    <<"s", " ", "-", "5">>, <<"s">>, <<"s", " ", "x">>, <<"s", " ", "N", "a", "N">>,
    <<"s", "p", "e", "e", "d", " ", "5">>,
    <<"r">>, <<"x">>, <<"+", "+">>
}

-----------------------------------------------------------------------------
(* main() *)

joint_names == <<"shoulder_pan", "shoulder_lift", "elbow_flex", "wrist_flex", "wrist_roll", "gripper">>

InitialStepSize == Fin(3000)

\* seq[i] with Python's 0-based index, negative indices counting from the end
PyIndex(seq, i) == IF i >= 0 THEN seq[i + 1] ELSE seq[Len(seq) + i + 1]

\* d[key] = val
SetItem(d, key, val) == [x \in (DOMAIN d) \cup {key} |-> IF x = key THEN val ELSE d[x]]

\* pos.item(): the single element of an array, ValueError for any other size
Item(pos) ==
    IF Len(pos.vals) = 1 THEN [ok |-> TRUE, v |-> pos.vals[1]] ELSE [ok |-> FALSE, v |-> Zero]

\* lines 52-58: the float stored for a startup read ([ok |-> FALSE]: an exception)
StartupPosition(pos) ==
    IF pos.kind = "ndarray"
    THEN IF Len(pos.vals) > 0 THEN Item(pos) ELSE [ok |-> TRUE, v |-> Zero]
    ELSE [ok |-> TRUE, v |-> pos.vals[1]]

\* PlusPosition with the size test inverted
PlusPositionInverted(pos) ==
    IF pos.kind = "ndarray"
    THEN IF Len(pos.vals) > 0 THEN [ok |-> TRUE, v |-> Zero] ELSE Item(pos)
    ELSE [ok |-> TRUE, v |-> pos.vals[1]]

\* lines 119-125: the float stored for the read-back of `+`
PlusPosition(pos) ==
    IF pos.kind = "ndarray"
    THEN IF Len(pos.vals) > 0 THEN Item(pos) ELSE [ok |-> TRUE, v |-> Zero]
    ELSE [ok |-> TRUE, v |-> pos.vals[1]]

\* lines 145-151: the float stored for the read-back of `-`
MinusPosition(pos) ==
    IF pos.kind = "ndarray"
    THEN IF Len(pos.vals) > 0 THEN Item(pos) ELSE [ok |-> TRUE, v |-> Zero]
    ELSE [ok |-> TRUE, v |-> pos.vals[1]]

\* ReadAllPosition calling item() without the size test
ReadAllPositionNoSizeTest(pos) ==
    IF pos.kind = "ndarray" THEN Item(pos) ELSE [ok |-> TRUE, v |-> pos.vals[1]]

\* lines 177-183: the float stored for a read of `r`
ReadAllPosition(pos) ==
    IF pos.kind = "ndarray"
    THEN IF Len(pos.vals) > 0 THEN Item(pos) ELSE [ok |-> TRUE, v |-> Zero]
    ELSE [ok |-> TRUE, v |-> pos.vals[1]]

\* line 85: input(...).strip().lower()
ReadCommand(line) == Lower(Strip(line))

\* the values cmd takes
Commands == {ReadCommand(line) : line \in Lines}

\* lines 87-188: the branch of the if/elif chain that takes cmd
Branch(c) ==
    IF c = <<"q">> THEN "q"
    ELSE IF StartsWith(c, "j") THEN "j"
    ELSE IF c = <<"+">> THEN "+"
    ELSE IF c = <<"-">> THEN "-"
    ELSE IF StartsWith(c, "s") THEN "s"
    ELSE IF c = <<"r">> THEN "r"
    ELSE "unknown"

\* SelectJoint without the lower bound of the range check (idx < len(joint_names) alone)
SelectJointNoLowerBound(c, sel) ==
    LET parts == Split(c)
    IN  IF Len(parts) > 1
        THEN LET n == int(parts[2])
                 idx == n.v - 1
             IN  IF ~n.ok THEN [sel |-> sel, out |-> "Invalid joint number format"]
                 ELSE IF idx < Len(joint_names)
                 THEN [sel |-> PyIndex(joint_names, idx), out |-> "Selected joint"]
                 ELSE [sel |-> sel, out |-> "Invalid joint number"]
        ELSE [sel |-> sel, out |-> "Usage: j NUMBER"]

\* lines 91-103: the selected joint and the message after the `j` branch
SelectJoint(c, sel) ==
    LET parts == Split(c)
    IN  IF Len(parts) > 1
        THEN LET n == int(parts[2])
                 idx == n.v - 1
             IN  IF ~n.ok THEN [sel |-> sel, out |-> "Invalid joint number format"]
                 ELSE IF 0 <= idx /\ idx < Len(joint_names)
                 THEN [sel |-> PyIndex(joint_names, idx), out |-> "Selected joint"]
                 ELSE [sel |-> sel, out |-> "Invalid joint number"]
        ELSE [sel |-> sel, out |-> "Usage: j NUMBER"]

\* SetStep testing new_step >= 0
SetStepNonNegative(c, step) ==
    LET parts == Split(c)
    IN  IF Len(parts) > 1
        THEN LET new_step == float(parts[2])
             IN  IF ~new_step.ok THEN [step |-> step, out |-> "Invalid step size format"]
                 ELSE IF FGt(new_step.v, Zero) \/ new_step.v = Zero
                 THEN [step |-> new_step.v, out |-> "Step size set"]
                 ELSE [step |-> step, out |-> "Step size must be positive"]
        ELSE [step |-> step, out |-> "Usage: s NUMBER"]

\* SetStep testing not (new_step <= 0), which a NaN passes
SetStepNotNonPositive(c, step) ==
    LET parts == Split(c)
    IN  IF Len(parts) > 1
        THEN LET new_step == float(parts[2])
             IN  IF ~new_step.ok THEN [step |-> step, out |-> "Invalid step size format"]
                 ELSE IF ~(FGt(Zero, new_step.v) \/ new_step.v = Zero)
                 THEN [step |-> new_step.v, out |-> "Step size set"]
                 ELSE [step |-> step, out |-> "Step size must be positive"]
        ELSE [step |-> step, out |-> "Usage: s NUMBER"]

\* lines 158-170: the step size and the message after the `s` branch
SetStep(c, step) ==
    LET parts == Split(c)
    IN  IF Len(parts) > 1
        THEN LET new_step == float(parts[2])
             IN  IF ~new_step.ok THEN [step |-> step, out |-> "Invalid step size format"]
                 ELSE IF FGt(new_step.v, Zero)
                 THEN [step |-> new_step.v, out |-> "Step size set"]
                 ELSE [step |-> step, out |-> "Step size must be positive"]
        ELSE [step |-> step, out |-> "Usage: s NUMBER"]

\* lines 108, 134: target_pos
PlusTarget(current_pos, step) == FAdd(current_pos, step)

\* the `-` branch pasted from the `+` branch with the sign left as it was
MinusTargetPasted(current_pos, step) == FAdd(current_pos, step)

MinusTarget(current_pos, step) == FSub(current_pos, step)

NoPositions == [x \in {} |-> Zero]

\* no value returned (yet); a returned URL is a non-empty sequence
NotReturned == <<>>

\* upload_dataset_to_hf has not been called
NotCalled ==
    /\ upload_pc = "idle"
    /\ local_path_exists = FALSE
    /\ info_path_exists = FALSE
    /\ repo_id = ""
    /\ version = ""
    /\ private = FALSE
    /\ readme_content = None
    /\ hub = <<>>
    /\ logged = FALSE
    /\ upload_exc = "none"
    /\ result = NotReturned

Init ==
    /\ NotCalled
    /\ pc = "connect"
    /\ is_connected \in BOOLEAN
    /\ joint_positions = NoPositions
    /\ selected_joint = "unbound"
    /\ step_size = Unbound
    /\ joint = 0
    /\ cmd = <<>>
    /\ out = "Connecting to robot..."
    /\ calls = <<>>
    /\ exc = "none"
    /\ disconnect_calls = 0
    /\ reply = NoReply

\* main() is left: its local variables are gone
Return ==
    /\ pc' = "exited"
    /\ joint_positions' = NoPositions
    /\ selected_joint' = "unbound"
    /\ step_size' = Unbound
    /\ joint' = 0
    /\ cmd' = <<>>
    /\ reply' = NoReply

\* Connect without the is_connected test
ConnectUnconditional ==
    /\ pc = "connect"
    /\ \E o \in Outcomes :
        /\ calls' = Append(calls, LifecycleCall("connect"))
        /\ IF o = "ok"
           THEN /\ is_connected' = TRUE
                /\ pc' = "startup"
                /\ joint' = 1
                /\ reply' \in Replies
                /\ out' = "Robot connected successfully!"
                /\ UNCHANGED <<exc, joint_positions, selected_joint, step_size, cmd>>
           ELSE /\ Return
                /\ exc' = "Exception"
                /\ UNCHANGED <<is_connected, out>>
    /\ UNCHANGED disconnect_calls
    /\ UNCHANGED uploadVars

\* lines 34-38, 49
Connect ==
    /\ pc = "connect"
    /\ IF is_connected
       THEN /\ pc' = "startup"
            /\ joint' = 1
            /\ reply' \in Replies
            /\ out' = "Robot connected successfully!"
            /\ UNCHANGED <<is_connected, calls, exc, joint_positions, selected_joint,
                           step_size, cmd>>
       ELSE \E o \in Outcomes :
            /\ calls' = Append(calls, LifecycleCall("connect"))
            /\ IF o = "ok"
               THEN /\ is_connected' = TRUE
                    /\ pc' = "startup"
                    /\ joint' = 1
                    /\ reply' \in Replies
                    /\ out' = "Robot connected successfully!"
                    /\ UNCHANGED <<exc, joint_positions, selected_joint, step_size, cmd>>
               ELSE /\ Return
                    /\ exc' = "Exception"
                    /\ UNCHANGED <<is_connected, out>>
    /\ UNCHANGED disconnect_calls
    /\ UNCHANGED uploadVars

\* StartupRead with the except branch of the `r` loop: it prints and stores nothing
StartupReadNoDefault ==
    /\ pc = "startup"
    /\ LET name == joint_names[joint]
           val == StartupPosition(reply.pos)
       IN  /\ calls' = Append(calls, ReadCall(name))
           /\ IF reply.o = "ok" /\ val.ok
              THEN /\ joint_positions' = SetItem(joint_positions, name, val.v)
                   /\ out' = "position"
              ELSE /\ joint_positions' = joint_positions
                   /\ out' = "Error reading"
    /\ IF joint < Len(joint_names)
       THEN /\ joint' = joint + 1
            /\ reply' \in Replies
            /\ UNCHANGED <<pc, step_size, selected_joint>>
       ELSE /\ joint' = 0
            /\ reply' = NoReply
            /\ pc' = "prompt"
            /\ step_size' = InitialStepSize
            /\ selected_joint' = joint_names[1]
    /\ UNCHANGED <<is_connected, cmd, exc, disconnect_calls>>
    /\ UNCHANGED uploadVars

\* StartupRead without the try/except around the read: a failed read ends main()
StartupReadAborts ==
    /\ pc = "startup"
    /\ LET name == joint_names[joint]
           val == StartupPosition(reply.pos)
       IN  /\ calls' = Append(calls, ReadCall(name))
           /\ IF reply.o = "ok" /\ val.ok
              THEN /\ joint_positions' = SetItem(joint_positions, name, val.v)
                   /\ out' = "position"
                   /\ exc' = exc
                   /\ IF joint < Len(joint_names)
                      THEN /\ joint' = joint + 1
                           /\ reply' \in Replies
                           /\ UNCHANGED <<pc, step_size, selected_joint, cmd>>
                      ELSE /\ joint' = 0
                           /\ reply' = NoReply
                           /\ pc' = "prompt"
                           /\ step_size' = InitialStepSize
                           /\ selected_joint' = joint_names[1]
                           /\ cmd' = cmd
              ELSE /\ Return
                   /\ exc' = "Exception"
                   /\ out' = out
    /\ UNCHANGED <<is_connected, disconnect_calls>>
    /\ UNCHANGED uploadVars

\* lines 49-66: one iteration of the startup loop; after the last one, the menu
StartupRead ==
    /\ pc = "startup"
    /\ LET name == joint_names[joint]
           val == StartupPosition(reply.pos)
       IN  /\ calls' = Append(calls, ReadCall(name))
           /\ IF reply.o = "ok" /\ val.ok
              THEN /\ joint_positions' = SetItem(joint_positions, name, val.v)
                   /\ out' = "position"
              ELSE /\ joint_positions' = SetItem(joint_positions, name, Zero)
                   /\ out' = "Error reading"
    /\ IF joint < Len(joint_names)
       THEN /\ joint' = joint + 1
            /\ reply' \in Replies
            /\ UNCHANGED <<pc, step_size, selected_joint>>
       ELSE /\ joint' = 0
            /\ reply' = NoReply
            /\ pc' = "prompt"
            /\ step_size' = InitialStepSize
            /\ selected_joint' = joint_names[1]
    /\ UNCHANGED <<is_connected, cmd, exc, disconnect_calls>>
    /\ UNCHANGED uploadVars

\* lines 194-199: the finally block, entered with the pending exception e after
\* the calls `issued`; a failed disconnect leaves the adapter in either state
Finally(e, issued) ==
    /\ IF is_connected
       THEN \E o \in Outcomes :
            /\ calls' = Append(issued, LifecycleCall("disconnect"))
            /\ disconnect_calls' = disconnect_calls + 1
            /\ IF o = "ok"
               THEN /\ is_connected' = FALSE
                    /\ out' = "Robot disconnected"
                    /\ exc' = e
               ELSE /\ is_connected' \in BOOLEAN
                    /\ out' = "Disconnecting robot..."
                    /\ exc' = "Exception"
       ELSE /\ calls' = issued
            /\ exc' = e
            /\ UNCHANGED <<is_connected, disconnect_calls, out>>
    /\ Return

\* lines 85-88: `q` breaks out of the loop and prints nothing
Quit ==
    /\ pc = "prompt"
    /\ \E c \in Commands :
        /\ Branch(c) = "q"
        /\ cmd' = c
    /\ pc' = "finally"
    /\ out' = ""
    /\ calls' = <<>>
    /\ UNCHANGED <<is_connected, joint_positions, selected_joint, step_size, joint, exc,
                   disconnect_calls, reply>>
    /\ UNCHANGED uploadVars

\* lines 194-199: the finally block after the break
QuitFinally ==
    /\ pc = "finally"
    /\ Finally("none", calls)
    /\ UNCHANGED uploadVars

\* lines 90-103: the `j` branch
Select ==
    /\ pc = "prompt"
    /\ \E c \in Commands :
        /\ Branch(c) = "j"
        /\ cmd' = c
        /\ selected_joint' = SelectJoint(c, selected_joint).sel
        /\ out' = SelectJoint(c, selected_joint).out
    /\ calls' = <<>>
    /\ UNCHANGED <<pc, is_connected, joint_positions, step_size, joint, exc, disconnect_calls,
                   reply>>
    /\ UNCHANGED uploadVars

\* PlusWrite with an except branch that resets the cached position, as the startup loop does
PlusWriteResetsCache ==
    /\ pc = "prompt"
    /\ \E c \in Commands :
        /\ Branch(c) = "+"
        /\ cmd' = c
    /\ \E o \in Outcomes :
        LET current_pos == joint_positions[selected_joint]
            target_pos == FAdd(current_pos, step_size)
        IN  /\ calls' = <<WriteCall(selected_joint, target_pos)>>
            /\ IF o = "ok"
               THEN /\ pc' = "readback" /\ out' = "Command sent. Waiting..."
                    /\ reply' \in Replies
                    /\ joint_positions' = joint_positions
               ELSE /\ pc' = "prompt" /\ out' = "Error" /\ reply' = NoReply
                    /\ joint_positions' = SetItem(joint_positions, selected_joint, Zero)
    /\ UNCHANGED <<is_connected, selected_joint, step_size, joint, exc, disconnect_calls>>
    /\ UNCHANGED uploadVars

\* lines 105-115, 128-129: the `+` branch up to the settle delay
PlusWrite ==
    /\ pc = "prompt"
    /\ \E c \in Commands :
        /\ Branch(c) = "+"
        /\ cmd' = c
    /\ \E o \in Outcomes :
        LET current_pos == joint_positions[selected_joint]
            target_pos == PlusTarget(current_pos, step_size)
        IN  /\ calls' = <<WriteCall(selected_joint, target_pos)>>
            /\ IF o = "ok"
               THEN pc' = "readback" /\ out' = "Command sent. Waiting..." /\ reply' \in Replies
               ELSE pc' = "prompt" /\ out' = "Error" /\ reply' = NoReply
    /\ UNCHANGED <<is_connected, joint_positions, selected_joint, step_size, joint, exc,
                   disconnect_calls>>
    /\ UNCHANGED uploadVars

\* PlusRead reading a second time when the first read-back raises
PlusReadRetries ==
    /\ pc = "readback"
    /\ cmd = <<"+">>
    /\ LET val == PlusPosition(reply.pos)
       IN  IF reply.o = "ok" /\ val.ok
           THEN /\ calls' = Append(calls, ReadCall(selected_joint))
                /\ joint_positions' = SetItem(joint_positions, selected_joint, val.v)
                /\ out' = "New position"
           ELSE /\ calls' = calls \o <<ReadCall(selected_joint), ReadCall(selected_joint)>>
                /\ joint_positions' = joint_positions
                /\ out' = "Error"
    /\ pc' = "prompt"
    /\ reply' = NoReply
    /\ UNCHANGED <<is_connected, selected_joint, step_size, joint, cmd, exc, disconnect_calls>>
    /\ UNCHANGED uploadVars

\* lines 117-129: the read-back of the `+` branch
PlusRead ==
    /\ pc = "readback"
    /\ cmd = <<"+">>
    /\ LET val == PlusPosition(reply.pos)
       IN  /\ calls' = Append(calls, ReadCall(selected_joint))
           /\ IF reply.o = "ok" /\ val.ok
              THEN /\ joint_positions' = SetItem(joint_positions, selected_joint, val.v)
                   /\ out' = "New position"
              ELSE /\ joint_positions' = joint_positions
                   /\ out' = "Error"
    /\ pc' = "prompt"
    /\ reply' = NoReply
    /\ UNCHANGED <<is_connected, selected_joint, step_size, joint, cmd, exc, disconnect_calls>>
    /\ UNCHANGED uploadVars

\* lines 131-141, 154-155: the `-` branch up to the settle delay
MinusWrite ==
    /\ pc = "prompt"
    /\ \E c \in Commands :
        /\ Branch(c) = "-"
        /\ cmd' = c
    /\ \E o \in Outcomes :
        LET current_pos == joint_positions[selected_joint]
            target_pos == MinusTarget(current_pos, step_size)
        IN  /\ calls' = <<WriteCall(selected_joint, target_pos)>>
            /\ IF o = "ok"
               THEN pc' = "readback" /\ out' = "Command sent. Waiting..." /\ reply' \in Replies
               ELSE pc' = "prompt" /\ out' = "Error" /\ reply' = NoReply
    /\ UNCHANGED <<is_connected, joint_positions, selected_joint, step_size, joint, exc,
                   disconnect_calls>>
    /\ UNCHANGED uploadVars

\* MinusRead storing under `joint`, which the for loops leave at the last joint name
MinusReadStoresLoopJoint ==
    /\ pc = "readback"
    /\ cmd = <<"-">>
    /\ LET val == MinusPosition(reply.pos)
       IN  /\ calls' = Append(calls, ReadCall(selected_joint))
           /\ IF reply.o = "ok" /\ val.ok
              THEN /\ joint_positions' =
                        SetItem(joint_positions, joint_names[Len(joint_names)], val.v)
                   /\ out' = "New position"
              ELSE /\ joint_positions' = joint_positions
                   /\ out' = "Error"
    /\ pc' = "prompt"
    /\ reply' = NoReply
    /\ UNCHANGED <<is_connected, selected_joint, step_size, joint, cmd, exc, disconnect_calls>>
    /\ UNCHANGED uploadVars

\* MinusRead with the read-back outside the try: its exception leaves the loop
MinusReadUncaught ==
    /\ pc = "readback"
    /\ cmd = <<"-">>
    /\ LET val == MinusPosition(reply.pos)
       IN  IF reply.o = "ok" /\ val.ok
           THEN /\ calls' = Append(calls, ReadCall(selected_joint))
                /\ joint_positions' = SetItem(joint_positions, selected_joint, val.v)
                /\ out' = "New position"
                /\ pc' = "prompt"
                /\ reply' = NoReply
                /\ UNCHANGED <<is_connected, selected_joint, step_size, joint, cmd, exc,
                               disconnect_calls>>
           ELSE Finally("Exception", Append(calls, ReadCall(selected_joint)))
    /\ UNCHANGED uploadVars

\* lines 143-155: the read-back of the `-` branch
MinusRead ==
    /\ pc = "readback"
    /\ cmd = <<"-">>
    /\ LET val == MinusPosition(reply.pos)
       IN  /\ calls' = Append(calls, ReadCall(selected_joint))
           /\ IF reply.o = "ok" /\ val.ok
              THEN /\ joint_positions' = SetItem(joint_positions, selected_joint, val.v)
                   /\ out' = "New position"
              ELSE /\ joint_positions' = joint_positions
                   /\ out' = "Error"
    /\ pc' = "prompt"
    /\ reply' = NoReply
    /\ UNCHANGED <<is_connected, selected_joint, step_size, joint, cmd, exc, disconnect_calls>>
    /\ UNCHANGED uploadVars

\* lines 157-170: the `s` branch
Step ==
    /\ pc = "prompt"
    /\ \E c \in Commands :
        /\ Branch(c) = "s"
        /\ cmd' = c
        /\ step_size' = SetStep(c, step_size).step
        /\ out' = SetStep(c, step_size).out
    /\ calls' = <<>>
    /\ UNCHANGED <<pc, is_connected, joint_positions, selected_joint, joint, exc,
                   disconnect_calls, reply>>
    /\ UNCHANGED uploadVars

\* lines 172-174: the `r` branch enters its loop
ReadAll ==
    /\ pc = "prompt"
    /\ \E c \in Commands :
        /\ Branch(c) = "r"
        /\ cmd' = c
    /\ pc' = "readall"
    /\ joint' = 1
    /\ reply' \in Replies
    /\ out' = "Reading all positions..."
    /\ calls' = <<>>
    /\ UNCHANGED <<is_connected, joint_positions, selected_joint, step_size, exc,
                   disconnect_calls>>
    /\ UNCHANGED uploadVars

\* lines 174-186: one iteration of the loop of `r`
ReadAllRead ==
    /\ pc = "readall"
    /\ LET name == joint_names[joint]
           val == ReadAllPosition(reply.pos)
       IN  /\ calls' = Append(calls, ReadCall(name))
           /\ IF reply.o = "ok" /\ val.ok
              THEN /\ joint_positions' = SetItem(joint_positions, name, val.v)
                   /\ out' = "position"
              ELSE /\ joint_positions' = joint_positions
                   /\ out' = "Error reading"
    /\ IF joint < Len(joint_names)
       THEN joint' = joint + 1 /\ pc' = pc /\ reply' \in Replies
       ELSE joint' = 0 /\ pc' = "prompt" /\ reply' = NoReply
    /\ UNCHANGED <<is_connected, selected_joint, step_size, cmd, exc, disconnect_calls>>
    /\ UNCHANGED uploadVars

\* lines 188-189: the else branch
Unknown ==
    /\ pc = "prompt"
    /\ \E c \in Commands :
        /\ Branch(c) = "unknown"
        /\ cmd' = c
    /\ out' = "Unknown command"
    /\ calls' = <<>>
    /\ UNCHANGED <<pc, is_connected, joint_positions, selected_joint, step_size, joint, exc,
                   disconnect_calls, reply>>
    /\ UNCHANGED uploadVars

\* lines 34-62 are outside the try: a KeyboardInterrupt there leaves main()
InterruptBeforeLoop ==
    /\ pc \in {"connect", "startup"}
    /\ Return
    /\ exc' = "KeyboardInterrupt"
    /\ UNCHANGED <<is_connected, out, calls, disconnect_calls>>
    /\ UNCHANGED uploadVars

\* lines 191-199: a KeyboardInterrupt inside the try (input, sleep, bus call)
InterruptInLoop ==
    /\ pc \in {"prompt", "readback", "readall"}
    /\ Finally("none", calls)
    /\ UNCHANGED uploadVars

\* lines 85, 194-199: input() raises EOFError, which no handler of the loop catches
EndOfInput ==
    /\ pc = "prompt"
    /\ Finally("EOFError", calls)
    /\ UNCHANGED uploadVars

Next ==
    \/ Connect
    \/ StartupRead
    \/ Quit
    \/ QuitFinally
    \/ Select
    \/ PlusWrite
    \/ PlusRead
    \/ MinusWrite
    \/ MinusRead
    \/ Step
    \/ ReadAll
    \/ ReadAllRead
    \/ Unknown
    \/ InterruptBeforeLoop
    \/ InterruptInLoop
    \/ EndOfInput

Spec == Init /\ [][Next]_vars

-----------------------------------------------------------------------------
(* upload_dataset_to_hf (upload_dataset.py) *)

RepoIds == {"Demonion/socks_basket", "Demonion/so100_test"}
Versions == {"v2.1", "v2.0"}
Description == "Robotics dataset uploaded via LeRobot"

\* how a call into huggingface_hub or lerobot ends: it returns, raises an
\* Exception, or is interrupted (KeyboardInterrupt is not an Exception)
HubOutcomes == {"ok", "Exception", "KeyboardInterrupt"}

\* line 79
DatasetUrl(id) == <<"https://huggingface.co/datasets/", id>>

\* lines 18-24: the call, with the state of the file system it finds
\* (meta/info.json exists only inside an existing dataset directory)
UploadInit ==
    /\ pc = "connect"
    /\ is_connected = FALSE
    /\ joint_positions = NoPositions
    /\ selected_joint = "unbound"
    /\ step_size = Unbound
    /\ joint = 0
    /\ cmd = <<>>
    /\ out = ""
    /\ calls = <<>>
    /\ exc = "none"
    /\ disconnect_calls = 0
    /\ reply = NoReply
    /\ upload_pc = "start"
    /\ local_path_exists \in BOOLEAN
    /\ info_path_exists \in BOOLEAN
    /\ info_path_exists => local_path_exists
    /\ repo_id \in RepoIds
    /\ version \in Versions
    /\ private \in BOOLEAN
    /\ readme_content = None
    /\ hub = <<>>
    /\ logged = FALSE
    /\ upload_exc = "none"
    /\ result = NotReturned

\* an exception leaves the function; lines 81-83 log an Exception and re-raise
\* it, anything else passes the except clause by
Raise(e, inTry) ==
    /\ upload_pc' = "raised"
    /\ upload_exc' = e
    /\ logged' = (inTry /\ e # "KeyboardInterrupt")

\* lines 36-43
CheckPaths ==
    /\ upload_pc = "start"
    /\ IF ~local_path_exists
       THEN Raise("FileNotFoundError", FALSE)
       ELSE IF ~info_path_exists
            THEN Raise("FileNotFoundError", FALSE)
            ELSE /\ upload_pc' = "validate"
                 /\ UNCHANGED <<upload_exc, logged>>
    /\ UNCHANGED <<local_path_exists, info_path_exists, repo_id, version, private,
                   readme_content, hub, result>>
    /\ UNCHANGED mainVars

\* lines 46-48: validate_repo_id is library code, it accepts the id or raises
ValidateRepoId ==
    /\ upload_pc = "validate"
    /\ \E o \in {"ok", "HFValidationError"} :
        IF o = "ok"
        THEN /\ upload_pc' = "create_repo"
             /\ UNCHANGED <<upload_exc, logged>>
        ELSE Raise(o, FALSE)
    /\ UNCHANGED <<local_path_exists, info_path_exists, repo_id, version, private,
                   readme_content, hub, result>>
    /\ UNCHANGED mainVars

\* lines 50-57
CreateRepo ==
    /\ upload_pc = "create_repo"
    /\ \E o \in HubOutcomes :
        /\ hub' = Append(hub, [op |-> "create_repo", repo_id |-> repo_id, repo_type |-> "dataset",
                               exist_ok |-> TRUE, private |-> private, o |-> o])
        /\ IF o = "ok"
           THEN /\ upload_pc' = "card"
                /\ UNCHANGED <<upload_exc, logged>>
           ELSE Raise(o, TRUE)
    /\ UNCHANGED <<local_path_exists, info_path_exists, repo_id, version, private,
                   readme_content, result>>
    /\ UNCHANGED mainVars

\* lines 60-63
DatasetCard ==
    /\ upload_pc = "card"
    /\ \E o \in HubOutcomes :
        IF o = "ok"
        THEN /\ readme_content' = [repo_id |-> repo_id, description |-> Description]
             /\ upload_pc' = "upload_folder"
             /\ UNCHANGED <<upload_exc, logged>>
        ELSE /\ Raise(o, TRUE)
             /\ UNCHANGED readme_content
    /\ UNCHANGED <<local_path_exists, info_path_exists, repo_id, version, private, hub, result>>
    /\ UNCHANGED mainVars

\* UploadFolder with its exception swallowed: the function goes on to the branch
UploadFolderSwallows ==
    /\ upload_pc = "upload_folder"
    /\ \E o \in HubOutcomes :
        /\ hub' = Append(hub, [op |-> "upload_folder", repo_id |-> repo_id, repo_type |-> "dataset",
                               version |-> version, o |-> o])
        /\ upload_pc' = "create_branch"
        /\ UNCHANGED <<upload_exc, logged>>
    /\ UNCHANGED <<local_path_exists, info_path_exists, repo_id, version, private,
                   readme_content, result>>
    /\ UNCHANGED mainVars

\* lines 66-72
UploadFolder ==
    /\ upload_pc = "upload_folder"
    /\ \E o \in HubOutcomes :
        /\ hub' = Append(hub, [op |-> "upload_folder", repo_id |-> repo_id, repo_type |-> "dataset",
                               version |-> version, o |-> o])
        /\ IF o = "ok"
           THEN /\ upload_pc' = "create_branch"
                /\ UNCHANGED <<upload_exc, logged>>
           ELSE Raise(o, TRUE)
    /\ UNCHANGED <<local_path_exists, info_path_exists, repo_id, version, private,
                   readme_content, result>>
    /\ UNCHANGED mainVars

\* lines 75-79
CreateBranch ==
    /\ upload_pc = "create_branch"
    /\ \E o \in HubOutcomes :
        /\ hub' = Append(hub, [op |-> "create_branch", repo_id |-> repo_id, repo_type |-> "dataset",
                               branch |-> version, o |-> o])
        /\ IF o = "ok"
           THEN /\ upload_pc' = "returned"
                /\ result' = DatasetUrl(repo_id)
                /\ UNCHANGED <<upload_exc, logged>>
           ELSE /\ Raise(o, TRUE)
                /\ UNCHANGED result
    /\ UNCHANGED <<local_path_exists, info_path_exists, repo_id, version, private, readme_content>>
    /\ UNCHANGED mainVars

UploadNext ==
    \/ CheckPaths
    \/ ValidateRepoId
    \/ CreateRepo
    \/ DatasetCard
    \/ UploadFolder
    \/ CreateBranch

UploadSpec == UploadInit /\ [][UploadNext]_vars

-----------------------------------------------------------------------------
(* Properties *)

JointSet == {joint_names[i] : i \in 1..Len(joint_names)}

ConsoleState == <<selected_joint, step_size, joint_positions>>

\* the decimal text of n, -9 <= n <= 9
Decimal(n) == IF n < 0 THEN <<"-", Digits[1 - n]>> ELSE <<Digits[n + 1]>>

\* the line `j N` for every N tried
JCommand == [n \in -9..9 |-> <<"j", " ">> \o Decimal(n)]

\* a step that reads the line c at the prompt and returns to the prompt
Handled(c) == pc = "prompt" /\ pc' = "prompt" /\ cmd' = c

\* C1: `j N` selects the Nth joint of the fixed list for 1 <= N <= 6; for N out
\* of range, missing or not an integer, the selected joint, the step size and
\* the position cache stay as they were and an error message is printed.
C1_SelectByNumber ==
    [][(pc = "prompt" /\ pc' = "prompt") =>
        /\ \A n \in DOMAIN JCommand :
            cmd' = JCommand[n] =>
                IF n \in 1..6
                THEN selected_joint' = joint_names[n]
                ELSE /\ UNCHANGED ConsoleState
                     /\ out' = "Invalid joint number"
        /\ cmd' = <<"j">> => UNCHANGED ConsoleState /\ out' = "Usage: j NUMBER"
        /\ cmd' = <<"j", " ", "2", ".", "5">> =>
            UNCHANGED ConsoleState /\ out' = "Invalid joint number format"
      ]_vars

\* `j 9` was rejected after `j 3` had selected elbow_flex
C1_Witness ==
    /\ pc = "prompt"
    /\ cmd = JCommand[9]
    /\ out = "Invalid joint number"
    /\ selected_joint = "elbow_flex"

\* C2: `s F` sets step_size to F for F > 0; for F <= 0, a missing or a
\* non-numeric argument, step_size, the selected joint and the position cache
\* stay as they were and a message is printed.
C2_SetStepSize ==
    [][/\ Handled(<<"s", " ", "5">>) => step_size' = Fin(50)
       /\ Handled(<<"s", " ", "2", ".", "5">>) => step_size' = Fin(25)
       /\ \A c \in {<<"s", " ", "0">>, <<"s", " ", "-", "5">>} :
            Handled(c) => UNCHANGED ConsoleState /\ out' = "Step size must be positive"
       /\ Handled(<<"s">>) => UNCHANGED ConsoleState /\ out' = "Usage: s NUMBER"
       /\ Handled(<<"s", " ", "x">>) =>
            UNCHANGED ConsoleState /\ out' = "Invalid step size format"
      ]_vars

\* `s -5` was rejected after `s 2.5` had set the step size
C2_Witness ==
    /\ pc = "prompt"
    /\ cmd = <<"s", " ", "-", "5">>
    /\ out = "Step size must be positive"
    /\ step_size = Fin(25)

NumWrites(log) == Cardinality({i \in 1..Len(log) : log[i].op = "write"})

\* C3: `+` issues exactly one write, of Goal_Position with the cached position
\* of the selected joint plus step_size, to the selected joint, and `-` one with
\* the cached position minus step_size; no read precedes the write.
C3_MoveTarget ==
    [][/\ (pc = "prompt" /\ pc' # "exited" /\ cmd' = <<"+">>) =>
            calls' = <<[op |-> "write", reg |-> "Goal_Position", joint |-> selected_joint,
                        value |-> Fin(joint_positions[selected_joint].v + step_size.v)]>>
       /\ (pc = "prompt" /\ pc' # "exited" /\ cmd' = <<"-">>) =>
            calls' = <<[op |-> "write", reg |-> "Goal_Position", joint |-> selected_joint,
                        value |-> Fin(joint_positions[selected_joint].v - step_size.v)]>>
       /\ (pc = "readback" /\ pc' = "prompt") => NumWrites(calls') = 1 /\ calls'[1] = calls[1]
      ]_vars

\* `-` from the cached 0.0 with the step 300.0 wrote the target -300.0
C3_Witness ==
    /\ pc = "readback"
    /\ cmd = <<"-">>
    /\ joint_positions[selected_joint] = Zero
    /\ step_size = Fin(3000)
    /\ calls = <<[op |-> "write", reg |-> "Goal_Position", joint |-> selected_joint,
                  value |-> Fin(-3000)]>>

\* the bus answers the read in flight with the single value v
Returns(v) ==
    /\ reply.o = "ok"
    /\ reply.pos.kind = "scalar" \/ Len(reply.pos.vals) = 1
    /\ reply.pos.vals[1] = v

\* C4: a move whose write succeeded and whose read-back returns V leaves
\* exactly V, not the commanded target, as the cached position of the selected joint.
C4_ReadBackCached ==
    [][\A v \in ReadValues :
        (pc = "readback" /\ pc' = "prompt" /\ Returns(v)) =>
            joint_positions'[selected_joint] = v
      ]_vars

\* `+` from 0.0 commanded 300.0 and the read-back left 395.0 in the cache
C4_Witness ==
    /\ pc = "prompt"
    /\ cmd = <<"+">>
    /\ out = "New position"
    /\ Len(calls) = 2
    /\ calls[1].value = Fin(3000)
    /\ joint_positions[selected_joint] = Fin(3950)

\* C5: a read that raises during `r` does not leave the command: the cache
\* entry of that joint becomes 0.0, the loop goes on to the next joint, and after
\* the last joint the prompt returns.
C5_ReadAllFailureZeroes ==
    [][(pc = "readall" /\ pc' # "exited" /\ reply.o = "raise") =>
            /\ joint_positions'[joint_names[joint]] = Zero
            /\ \A i \in 1..Len(joint_names) :
                i # joint => joint_positions'[joint_names[i]] = joint_positions[joint_names[i]]
            /\ IF joint < Len(joint_names)
               THEN pc' = "readall" /\ joint' = joint + 1
               ELSE pc' = "prompt"
      ]_vars

\* C6: the startup loop reads the joints in the fixed order; a read that raises
\* stores 0.0 for its joint, the loop goes on to the next joint, and after the
\* last joint the command loop is entered with every joint cached.
C6_StartupReads ==
    [][/\ (pc = "connect" /\ pc' = "startup") => joint' = 1
       /\ (pc = "startup" /\ exc' # "KeyboardInterrupt") =>
            /\ calls' = Append(calls, [op |-> "read", reg |-> "Present_Position",
                                       joint |-> joint_names[joint], value |-> None])
            /\ joint_names[joint] \in DOMAIN joint_positions'
            /\ reply.o = "raise" => joint_positions'[joint_names[joint]] = Zero
            /\ \A x \in DOMAIN joint_positions :
                x # joint_names[joint] => joint_positions'[x] = joint_positions[x]
            /\ IF joint < Len(joint_names)
               THEN pc' = "startup" /\ joint' = joint + 1
               ELSE pc' = "prompt" /\ DOMAIN joint_positions' = JointSet
      ]_vars

\* the read of shoulder_lift raised: 0.0 was stored and the loop is at elbow_flex
C6_Witness ==
    /\ pc = "startup"
    /\ joint = 3
    /\ out = "Error reading"
    /\ joint_positions["shoulder_pan"] = Fin(3950)
    /\ joint_positions["shoulder_lift"] = Zero

\* C7: a run that has used the adapter and ends with it still connected has
\* called disconnect, however it ended.
C7_DisconnectOnEveryExit ==
    (pc = "exited" /\ is_connected /\ calls # <<>>) => disconnect_calls > 0

\* C8: while the console runs, the selected joint is one of the six joints and
\* step_size is greater than 0.
C8_ValidSelectionAndStep ==
    pc \in {"prompt", "readback", "readall"} =>
        /\ selected_joint \in JointSet
        /\ step_size.k \in {"fin", "inf"}
        /\ step_size.k = "fin" => step_size.v > 0

\* `s nan` was rejected with gripper selected and the step size 2.5
C8_Witness ==
    /\ pc = "prompt"
    /\ cmd = <<"s", " ", "n", "a", "n">>
    /\ out = "Step size must be positive"
    /\ step_size = Fin(25)
    /\ selected_joint = "gripper"

\* lines that are none of `j N`, `+`, `-`, `s N`, `r`, `q`
NotCommands ==
    {<<"j", "u", "m", "p", " ", "3">>, <<"s", "p", "e", "e", "d", " ", "5">>,
     <<"x">>, <<"+", "+">>}

\* C9: a line that is none of the six commands prints "Unknown command" and
\* leaves the selected joint, the step size and the position cache as they were.
C9_UnknownCommand ==
    [][\A c \in NotCommands :
        Handled(c) => out' = "Unknown command" /\ UNCHANGED ConsoleState
      ]_vars

\* C10: when the write of a move raises, the exception stays in the command:
\* the prompt returns, no read is issued, and the position cache, the selected
\* joint and the step size are as they were.
C10_WriteFailureKeepsCache ==
    [][(pc = "prompt" /\ cmd' \in {<<"+">>, <<"-">>} /\ out' = "Error") =>
            /\ pc' = "prompt"
            /\ UNCHANGED ConsoleState
            /\ Len(calls') = 1
            /\ calls'[1].op = "write"
      ]_vars

\* the write of `+` raised and the cached 395.0 is still there
C10_Witness ==
    /\ pc = "prompt"
    /\ cmd = <<"+">>
    /\ out = "Error"
    /\ Len(calls) = 1
    /\ joint_positions[selected_joint] = Fin(3950)

\* C11: when the write of a move succeeded and the read-back raises, 0.0 is
\* stored as the cached position of the selected joint.
C11_ReadBackFailureZeroes ==
    [][(pc = "readback" /\ pc' = "prompt" /\ reply.o = "raise") =>
            joint_positions'[selected_joint] = Zero
      ]_vars

\* C12: when disconnect raises in the finally block, main() still ends
\* normally: no exception leaves the program.
C12_DisconnectFailureContained ==
    (pc = "exited" /\ disconnect_calls > 0 /\ out = "Disconnecting robot...") => exc = "none"

LoopPcs == {"prompt", "readback", "readall"}

\* C13 as stated: the loop is left only by `q` or by an interrupt, so main()
\* leaves it with no exception of its own pending.
C13_OnlyQuitOrInterrupt ==
    [][(pc \in LoopPcs /\ pc' \notin LoopPcs) =>
            \/ pc' = "finally" /\ cmd' = <<"q">>
            \/ pc' = "exited" /\ (out' = "Disconnecting robot..." \/ exc' = "none")
      ]_vars

\* C13 as amended: no bus failure and no invalid line ends the loop; it is left
\* only by `q`, by an interrupt or by the EOFError of input().
C13_FailuresNotFatal ==
    [][(pc \in LoopPcs /\ pc' \notin LoopPcs) =>
            \/ pc' = "finally" /\ cmd' = <<"q">>
            \/ pc' = "exited" /\ (out' = "Disconnecting robot..." \/ exc' \in {"none", "EOFError"})
      ]_vars

\* the read-back of `-` raised and the console is back at the prompt
C13_Witness ==
    /\ pc = "prompt"
    /\ cmd = <<"-">>
    /\ out = "Error"
    /\ Len(calls) = 2
    /\ exc = "none"

\* the joint the read in flight is for
ReadJoint == IF pc = "readback" THEN selected_joint ELSE joint_names[joint]

\* C14: the startup read, the reads of `r` and the read-back of a move store
\* a scalar or a size-1 array as that scalar and an empty array as 0.0.
C14_ReadNormalised ==
    [][(pc \in {"startup", "readback", "readall"} /\ pc' # "exited" /\ reply.o = "ok") =>
            /\ ReadJoint \in DOMAIN joint_positions'
            /\ (reply.pos.kind = "scalar" \/ Len(reply.pos.vals) = 1) =>
                    joint_positions'[ReadJoint] = reply.pos.vals[1]
            /\ (reply.pos.kind = "ndarray" /\ reply.pos.vals = <<>>) =>
                    joint_positions'[ReadJoint] = Zero
      ]_vars

\* `r` read an empty array for shoulder_pan and stored 0.0
C14_Witness ==
    /\ pc = "readall"
    /\ joint = 2
    /\ out = "position"
    /\ joint_positions["shoulder_pan"] = Zero
    /\ joint_positions["shoulder_lift"] = Fin(3950)

\* the cache entries of the joints other than j are as they were
OthersKept(j) ==
    \A x \in DOMAIN joint_positions :
        x # j => x \in DOMAIN joint_positions' /\ joint_positions'[x] = joint_positions[x]

\* C15: no step taken at the prompt (`j`, `s`, `q`, an unknown line, the write
\* of a move, the start of `r`) changes a cache entry; a read changes at most
\* the entry of the joint it reads, which for a move is the selected joint; a
\* move changes neither the selected joint nor step_size.
C15_CacheFrame ==
    [][/\ (pc = "prompt" /\ pc' # "exited") => joint_positions' = joint_positions
       /\ (pc = "prompt" /\ pc' # "exited" /\ cmd' \in {<<"+">>, <<"-">>}) =>
            UNCHANGED <<selected_joint, step_size>>
       /\ (pc = "readback" /\ pc' # "exited") =>
            OthersKept(selected_joint) /\ UNCHANGED <<selected_joint, step_size>>
       /\ (pc \in {"startup", "readall"} /\ pc' # "exited") => OthersKept(joint_names[joint])
       /\ pc = "finally" => pc' = "exited"
      ]_vars

\* `-` on elbow_flex read back 395.0: that entry alone is not 0.0
C15_Witness ==
    /\ pc = "prompt"
    /\ cmd = <<"-">>
    /\ out = "New position"
    /\ selected_joint = "elbow_flex"
    /\ \A x \in JointSet :
        joint_positions[x] = IF x = "elbow_flex" THEN Fin(3950) ELSE Zero

\* C16: a move writes Goal_Position first; it reads Present_Position only
\* after a write that did not raise, once, for the joint it wrote; a failed
\* write or read is not issued again.
C16_WriteThenRead ==
    [][/\ (pc = "prompt" /\ pc' # "exited" /\ cmd' \in {<<"+">>, <<"-">>}) =>
            /\ Len(calls') = 1
            /\ calls'[1].op = "write"
            /\ calls'[1].reg = "Goal_Position"
            /\ pc' = "readback" <=> out' # "Error"
       /\ pc = "readback" => Len(calls) = 1
       /\ (pc = "readback" /\ pc' = "prompt") =>
            calls' = <<calls[1], [op |-> "read", reg |-> "Present_Position",
                                  joint |-> calls[1].joint, value |-> None]>>
      ]_vars

\* the read-back of `+` on wrist_flex raised after its write: one write, one read
C16_Witness ==
    /\ pc = "prompt"
    /\ cmd = <<"+">>
    /\ out = "Error"
    /\ selected_joint = "wrist_flex"
    /\ Len(calls) = 2
    /\ calls[1].op = "write"
    /\ calls[2].op = "read"
    /\ calls[2].joint = "wrist_flex"

\* C17: from the first prompt on, each of the six joints has a cache entry,
\* so the lookup of the selected joint at the prompt or in a move finds it.
C17_CacheTotal ==
    pc \in {"prompt", "readback", "readall", "finally"} =>
        /\ DOMAIN joint_positions = JointSet
        /\ selected_joint \in DOMAIN joint_positions

\* the first prompt after a startup in which no read gave a position
C17_Witness ==
    /\ pc = "prompt"
    /\ cmd = <<>>
    /\ out = "Error reading"
    /\ DOMAIN joint_positions = JointSet
    /\ \A x \in JointSet : joint_positions[x] = Zero

IsBusCall(call) == call.op \in {"read", "write"}

\* C18: connect is called only when is_connected is false and a failed connect
\* ends the program with no read or write; reads and writes are issued only
\* while the adapter is connected, none after disconnect; disconnect is called
\* at most once; `j`, `s`, `q` and unknown lines issue no read or write.
C18_BusInSession ==
    /\ [](/\ disconnect_calls <= 1
          /\ \A i \in 1..Len(calls) :
                /\ calls[i].op = "connect" => i = 1
                /\ calls[i].op = "disconnect" => i = Len(calls) /\ pc = "exited"
                /\ (IsBusCall(calls[i]) /\ pc # "exited") => is_connected
          /\ (pc = "exited" /\ exc = "Exception" /\ disconnect_calls = 0) =>
                calls = <<LifecycleCall("connect")>> /\ ~is_connected)
    /\ [][/\ (pc = "connect" /\ is_connected) => calls' = calls
          /\ (calls' # calls /\ calls' # <<>> /\ IsBusCall(calls'[Len(calls')])) => is_connected
          /\ (pc = "prompt" /\ pc' \in {"prompt", "finally"} /\ cmd' \notin {<<"+">>, <<"-">>}) =>
                calls' = <<>>
          /\ pc = "exited" => UNCHANGED vars
         ]_vars

\* `q` ended a session: disconnect is the one call of the command
C18_Witness ==
    /\ pc = "exited"
    /\ exc = "none"
    /\ ~is_connected
    /\ disconnect_calls = 1
    /\ calls = <<LifecycleCall("disconnect")>>

HubOps == <<"create_repo", "upload_folder", "create_branch">>

\* C19: the Hub operations are issued in the order create_repo, upload_folder,
\* create_branch(version); none is issued when the local path or its
\* meta/info.json is missing, FileNotFoundError being raised first; an
\* operation that fails is the last one issued and its exception leaves the
\* function; the dataset URL is returned only after all three succeeded.
C19_UploadOrder ==
    /\ [](/\ Len(hub) <= Len(HubOps)
          /\ \A i \in 1..Len(hub) :
                /\ i <= Len(HubOps) => hub[i].op = HubOps[i]
                /\ hub[i].repo_id = repo_id
                /\ hub[i].op = "create_branch" => hub[i].branch = version
                /\ hub[i].o # "ok" =>
                      /\ i = Len(hub)
                      /\ upload_pc = "raised"
                      /\ upload_exc = hub[i].o
                      /\ result = NotReturned
          /\ (~local_path_exists \/ ~info_path_exists) =>
                /\ hub = <<>>
                /\ upload_pc # "start" => upload_pc = "raised" /\ upload_exc = "FileNotFoundError"
          /\ upload_pc = "raised" => upload_exc # "none" /\ result = NotReturned
          /\ upload_pc = "returned" <=> result # NotReturned
          /\ result # NotReturned =>
                /\ Len(hub) = Len(HubOps)
                /\ \A i \in 1..Len(hub) : hub[i].o = "ok"
                /\ result = DatasetUrl(repo_id)
                /\ upload_exc = "none")
    /\ [][/\ hub' = hub \/ (Len(hub') = Len(hub) + 1 /\ SubSeq(hub', 1, Len(hub)) = hub)
          /\ upload_pc \in {"raised", "returned"} => UNCHANGED vars
         ]_vars

\* upload_folder raised after create_repo succeeded: no branch was created
C19_Witness ==
    /\ upload_pc = "raised"
    /\ upload_exc = "Exception"
    /\ logged
    /\ Len(hub) = 2
    /\ hub[1].op = "create_repo" /\ hub[1].o = "ok"
    /\ hub[2].op = "upload_folder" /\ hub[2].o = "Exception"
    /\ version = "v2.0"
    /\ result = NotReturned

====
